---- MODULE Spec2Model ----
(***************************************************************************)
(* Model of src/index.tsx: the App component of the Research Article       *)
(* Finder.  The component state (topic, loading, result, error), the       *)
(* handleSearch handler with its outstanding generateContent calls, and    *)
(* the part of the rendered view that depends on the state.                *)
(***************************************************************************)
EXTENDS Integers, Sequences, FiniteSets, TLC

\* ------------------------------------------------------------------ bounds
MaxChunks == 2     \* longest groundingChunks list of a response
MaxCalls == 2      \* calls to generateContent issued in one run

\* ------------------------------------------------------- JavaScript values
\* the value of an absent string property
Undefined == "<undefined>"

\* a string is falsy when it is absent or empty
Falsy(s) == s \in {Undefined, ""}

\* a || b on strings
Or(a, b) == IF Falsy(a) THEN b ELSE a

\* useState<SearchResult | null>(null)
Null == [isNull |-> TRUE]

\* ------------------------------------------------------------------ topics
\* a topic is the sequence of the characters typed: the empty topic, a topic
\* of white space, a topic of one letter, a topic with white space around it
Topics == {<<>>, <<" ", " ">>, <<"a">>, <<" ", "b", " ">>}

RECURSIVE TrimStart(_)
TrimStart(s) ==
  IF s # <<>> /\ Head(s) = " " THEN TrimStart(Tail(s)) ELSE s

RECURSIVE TrimEnd(_)
TrimEnd(s) ==
  IF s # <<>> /\ s[Len(s)] = " " THEN TrimEnd(SubSeq(s, 1, Len(s) - 1)) ELSE s

\* the guard "if (!topic) return" in place of "if (!topic.trim()) return"
TrimNone(s) == s

\* String.prototype.trim
Trim(s) == TrimEnd(TrimStart(s))

\* ------------------------------------------------------------ the request
PromptHead ==
  <<"Find ", "5", " high-quality research articles, papers, or reputable academic sources published in the last 5 years (2020-2025) related to: ", "\"">>

PromptTail ==
  <<"\"", ". For each article, provide: 1. Title 2. Authors (if available) 3. Year 4. A brief summary of why it is relevant for a presentation. Use Markdown formatting (bolding titles, using bullet points) to make it easy to read.">>

\* the template literal passed as contents
Prompt(t) == PromptHead \o t \o PromptTail

GenerateContentRequest(t) ==
  [model |-> "gemini-3-flash-preview", contents |-> Prompt(t), tools |-> <<"googleSearch">>]

NoRequest == [model |-> "", contents |-> <<>>, tools |-> <<>>]

\* ------------------------------------------------------------ the response
\* a uri is the sequence of its parts: scheme, "//", host, path
GoodUriA == <<"https:", "//", "a.org", "/paper">>
GoodUriB == <<"https:", "//", "b.edu", "/article">>
BadUri == <<"not a url">>

\* new URL(uri) throws a TypeError unless uri is an absolute URL
ParsesAsURL(uri) == Len(uri) >= 3 /\ uri[1] \in {"https:", "http:"} /\ uri[2] = "//"

\* new URL(uri).hostname
Hostname(uri) == uri[3]

\* GroundingChunk: web is optional
WebChunk(uri, title) == [hasWeb |-> TRUE, uri |-> uri, title |-> title]
NoWebChunk == [hasWeb |-> FALSE, uri |-> <<>>, title |-> Undefined]

ChunkValues ==
  { NoWebChunk,
    WebChunk(GoodUriA, "Paper A"),
    WebChunk(GoodUriB, Undefined),
    WebChunk(BadUri, "") }

ChunkLists == UNION {[1..n -> ChunkValues] : n \in 0..MaxChunks}

TextValues == {Undefined, "", "**Paper A**..."}

\* a response of generateContent: grounded is FALSE when candidates, the
\* first candidate, groundingMetadata or groundingChunks is absent
Responses ==
  [text : TextValues, grounded : {TRUE}, chunks : ChunkLists]
    \cup [text : TextValues, grounded : {FALSE}, chunks : {<<>>}]

\* the value a rejected call throws: an error whose message may be absent
Errors == [message : {Undefined, "", "quota exceeded"}]

\* ----------------------------------------------------------------- the view
\* the <li> with {chunk.web.title} in place of the fallback expression
RenderChunkNoFallback(chunk) ==
  IF ~chunk.hasWeb THEN <<>>
  ELSE <<[href |-> chunk.uri, title |-> chunk.title]>>

\* the <li> rendered for a chunk: null for a chunk without web, otherwise
\* the link with its href and its title
RenderChunk(chunk) ==
  IF ~chunk.hasWeb THEN <<>>
  ELSE <<[href |-> chunk.uri, title |-> Or(chunk.title, "Untitled Source")]>>

\* result.chunks.map(...): the list items displayed, nulls render nothing
RECURSIVE Citations(_)
Citations(chunks) ==
  IF chunks = <<>> THEN <<>>
  ELSE RenderChunk(Head(chunks)) \o Citations(Tail(chunks))

\* the hostname line of every rendered <li>
RECURSIVE Hostnames(_)
Hostnames(chunks) ==
  IF chunks = <<>> THEN <<>>
  ELSE (IF Head(chunks).hasWeb THEN <<Hostname(Head(chunks).uri)>> ELSE <<>>)
         \o Hostnames(Tail(chunks))

\* rendering throws when new URL(chunk.web.uri) throws for a displayed chunk
RenderThrows(r) ==
  r # Null /\ \E i \in DOMAIN r.chunks :
                 r.chunks[i].hasWeb /\ ~ParsesAsURL(r.chunks[i].uri)

\* the root after an error thrown while rendering: nothing is mounted
CrashedView ==
  [crashed |-> TRUE, submitDisabled |-> TRUE, buttonLabel |-> "",
   errorPanel |-> "", showResult |-> FALSE, markdown |-> "",
   showList |-> FALSE, links |-> <<>>, hostnames |-> <<>>, noLinksMsg |-> FALSE]

\* App with a submit button that is disabled for the empty topic only
RenderNoLoadingGuard(t, l, r, e) ==
  IF RenderThrows(r) THEN CrashedView
  ELSE [crashed |-> FALSE,
        submitDisabled |-> (t = <<>>),
        buttonLabel |-> IF l THEN "Searching..." ELSE "Find Articles",
        errorPanel |-> e,
        showResult |-> (r # Null),
        markdown |-> IF r # Null THEN r.text ELSE "",
        showList |-> (r # Null /\ Len(r.chunks) > 0),
        links |-> IF r # Null /\ Len(r.chunks) > 0 THEN Citations(r.chunks) ELSE <<>>,
        hostnames |-> IF r # Null /\ Len(r.chunks) > 0 THEN Hostnames(r.chunks) ELSE <<>>,
        noLinksMsg |-> (r # Null /\ Len(r.chunks) = 0)]

\* what App returns for the state (t, l, r, e)
Render(t, l, r, e) ==
  IF RenderThrows(r) THEN CrashedView
  ELSE [crashed |-> FALSE,
        submitDisabled |-> (l \/ t = <<>>),
        buttonLabel |-> IF l THEN "Searching..." ELSE "Find Articles",
        errorPanel |-> e,
        showResult |-> (r # Null),
        markdown |-> IF r # Null THEN r.text ELSE "",
        showList |-> (r # Null /\ Len(r.chunks) > 0),
        links |-> IF r # Null /\ Len(r.chunks) > 0 THEN Citations(r.chunks) ELSE <<>>,
        hostnames |-> IF r # Null /\ Len(r.chunks) > 0 THEN Hostnames(r.chunks) ELSE <<>>,
        noLinksMsg |-> (r # Null /\ Len(r.chunks) = 0)]

\* ---------------------------------------------------------------- the state
VARIABLES
  topic,     \* useState("")
  loading,   \* useState(false)
  result,    \* useState<SearchResult | null>(null)
  error,     \* useState("")
  calls,     \* number of generateContent calls issued so far
  request,   \* the argument of the most recent generateContent call
  pending,   \* number of calls awaited by a handleSearch that has not resumed
  view,      \* what the root displays
  submits,   \* number of handleSearch runs that got past the trim guard
  last       \* the handler that ran last and the state it ran from

vars == <<topic, loading, result, error, calls, request, pending, view, submits, last>>

\* the RequestState variant the three fields l, r, e stand for
Variant(l, r, e) ==
  IF l /\ r = Null /\ e = "" THEN "Loading"
  ELSE IF ~l /\ r = Null /\ e = "" THEN "Idle"
  ELSE IF ~l /\ r # Null /\ e = "" THEN "Succeeded"
  ELSE IF ~l /\ r = Null /\ e # "" THEN "Failed"
  ELSE "None"

\* the value of last when no call resolved in the step
NoResponse == [text |-> Undefined, grounded |-> FALSE, chunks |-> <<>>]
NoError == [message |-> Undefined]

\* the record of a handler run: the handler, the variant it ran from,
\* whether the root was mounted, and, for a resolution, whether the call was
\* the only one issued since the state was last cleared (single) and the
\* value it resolved with (kept while the root is mounted to receive it);
\* for a submit, whether it repeats the last request
Ran(op, single, again, response, err) ==
  [op |-> op, from |-> Variant(loading, result, error), mounted |-> ~view.crashed,
   single |-> single, again |-> again,
   response |-> IF view.crashed THEN NoResponse ELSE response,
   err |-> IF view.crashed THEN NoError ELSE err]

Init ==
  /\ topic = <<>>
  /\ loading = FALSE
  /\ result = Null
  /\ error = ""
  /\ calls = 0
  /\ request = NoRequest
  /\ pending = 0
  /\ view = Render(<<>>, FALSE, Null, "")
  /\ submits = 0
  /\ last = [op |-> "init", from |-> "Idle", mounted |-> TRUE, single |-> FALSE,
             again |-> FALSE, response |-> NoResponse, err |-> NoError]

\* onChange of the input: setTopic(e.target.value)
SetTopic(t) ==
  /\ ~view.crashed
  /\ t # topic
  /\ topic' = t
  /\ view' = Render(t, loading, result, error)
  /\ last' = Ran("setTopic", FALSE, FALSE, NoResponse, NoError)
  /\ UNCHANGED <<loading, result, error, calls, request, pending, submits>>

\* handleSearch without setResult(null)
HandleSearchKeepsResult ==
  /\ ~view.crashed
  /\ IF Trim(topic) = <<>>
     THEN /\ last' = Ran("return", FALSE, FALSE, NoResponse, NoError)
          /\ UNCHANGED <<topic, loading, result, error, calls, request, pending, view, submits>>
     ELSE /\ calls < MaxCalls
          /\ loading' = TRUE
          /\ error' = ""
          /\ calls' = calls + 1
          /\ request' = GenerateContentRequest(topic)
          /\ pending' = pending + 1
          /\ submits' = submits + 1
          /\ view' = Render(topic, TRUE, result, "")
          /\ last' = Ran("submit", FALSE, request = GenerateContentRequest(topic),
                         NoResponse, NoError)
          /\ UNCHANGED <<topic, result>>

\* handleSearch up to its await
HandleSearch ==
  /\ ~view.crashed
  /\ IF Trim(topic) = <<>>
     THEN /\ last' = Ran("return", FALSE, FALSE, NoResponse, NoError)
          /\ UNCHANGED <<topic, loading, result, error, calls, request, pending, view, submits>>
     ELSE /\ calls < MaxCalls
          /\ loading' = TRUE
          /\ error' = ""
          /\ result' = Null
          /\ calls' = calls + 1
          /\ request' = GenerateContentRequest(topic)
          /\ pending' = pending + 1
          /\ submits' = submits + 1
          /\ view' = Render(topic, TRUE, Null, "")
          /\ last' = Ran("submit", FALSE, request = GenerateContentRequest(topic),
                         NoResponse, NoError)
          /\ UNCHANGED topic

\* the SearchResult with response.text taken as it is
SearchResultNoFallback(response) ==
  [text |-> response.text,
   chunks |-> IF response.grounded THEN response.chunks ELSE <<>>]

\* the SearchResult that keeps the first grounding chunk only
SearchResultFirstChunk(response) ==
  [text |-> Or(response.text, "No results found."),
   chunks |-> IF response.grounded /\ response.chunks # <<>>
              THEN <<Head(response.chunks)>> ELSE <<>>]

\* the SearchResult built from a response
SearchResultOf(response) ==
  [text |-> Or(response.text, "No results found."),
   chunks |-> IF response.grounded THEN response.chunks ELSE <<>>]

\* the message taken as it is
MessageOfRaw(err) == err.message

\* the message shown for a thrown error
MessageOf(err) == Or(err.message, "An error occurred while fetching articles.")

\* a try block without the finally that clears loading
FulfilNoFinally(response) ==
  /\ pending > 0
  /\ pending' = pending - 1
  /\ last' = Ran("fulfil", loading /\ pending = 1, FALSE, response, NoError)
  /\ IF view.crashed
     THEN UNCHANGED <<loading, result, error, view>>
     ELSE /\ result' = SearchResultOf(response)
          /\ view' = Render(topic, loading, SearchResultOf(response), error)
          /\ UNCHANGED <<loading, error>>
  /\ UNCHANGED <<topic, calls, request, submits>>

\* an awaited call fulfils: the rest of the try block, then finally;
\* the setters of an unmounted component change nothing
Fulfil(response) ==
  /\ pending > 0
  /\ pending' = pending - 1
  /\ last' = Ran("fulfil", loading /\ pending = 1, FALSE, response, NoError)
  /\ IF view.crashed
     THEN UNCHANGED <<loading, result, error, view>>
     ELSE /\ result' = SearchResultOf(response)
          /\ loading' = FALSE
          /\ view' = Render(topic, FALSE, SearchResultOf(response), error)
          /\ UNCHANGED error
  /\ UNCHANGED <<topic, calls, request, submits>>

\* a catch block that issues the call again
RejectRetry(err) ==
  /\ pending > 0
  /\ last' = Ran("reject", loading /\ pending = 1, FALSE, NoResponse, err)
  /\ IF view.crashed
     THEN UNCHANGED <<loading, result, error, view>>
     ELSE /\ error' = MessageOf(err)
          /\ loading' = FALSE
          /\ view' = Render(topic, FALSE, result, MessageOf(err))
          /\ UNCHANGED result
  /\ IF calls < MaxCalls
     THEN calls' = calls + 1 /\ pending' = pending
     ELSE calls' = calls /\ pending' = pending - 1
  /\ UNCHANGED <<topic, request, submits>>

\* a handler without the finally block
RejectNoFinally(err) ==
  /\ pending > 0
  /\ pending' = pending - 1
  /\ last' = Ran("reject", loading /\ pending = 1, FALSE, NoResponse, err)
  /\ IF view.crashed
     THEN UNCHANGED <<loading, result, error, view>>
     ELSE /\ error' = MessageOf(err)
          /\ view' = Render(topic, loading, result, MessageOf(err))
          /\ UNCHANGED <<loading, result>>
  /\ UNCHANGED <<topic, calls, request, submits>>

\* an awaited call rejects: the catch block, then finally
Reject(err) ==
  /\ pending > 0
  /\ pending' = pending - 1
  /\ last' = Ran("reject", loading /\ pending = 1, FALSE, NoResponse, err)
  /\ IF view.crashed
     THEN UNCHANGED <<loading, result, error, view>>
     ELSE /\ error' = MessageOf(err)
          /\ loading' = FALSE
          /\ view' = Render(topic, FALSE, result, MessageOf(err))
          /\ UNCHANGED result
  /\ UNCHANGED <<topic, calls, request, submits>>

Next ==
  \/ \E t \in Topics : SetTopic(t)
  \/ HandleSearch
  \/ \E response \in Responses : Fulfil(response)
  \/ \E err \in Errors : Reject(err)

Spec == Init /\ [][Next]_vars

\* onSubmit of the form, reached through the submit button: the browser
\* submits the form only while the button is not disabled
SubmitForm ==
  /\ ~view.submitDisabled
  /\ HandleSearch

NextUI ==
  \/ \E t \in Topics : SetTopic(t)
  \/ SubmitForm
  \/ \E response \in Responses : Fulfil(response)
  \/ \E err \in Errors : Reject(err)

\* the application driven through its form only
SpecUI == Init /\ [][NextUI]_vars

\* the promise of an outstanding call settles
Resolve ==
  \/ \E response \in Responses : Fulfil(response)
  \/ \E err \in Errors : Reject(err)

\* the application driven through its form, with an external API whose
\* calls all settle in the end
FairSpecUI == SpecUI /\ WF_vars(Resolve)

TypeOK ==
  /\ topic \in Topics
  /\ loading \in BOOLEAN
  /\ error \in STRING
  /\ calls \in 0..MaxCalls
  /\ pending \in 0..calls

\* ================================================================ properties
\* a topic of white space only (the empty topic included)
Blank(t) == \A i \in DOMAIN t : t[i] = " "

\* s has sub as a contiguous part
Contains(s, sub) ==
  \E i \in 1..(Len(s) - Len(sub) + 1) : SubSeq(s, i, i + Len(sub) - 1) = sub

\* the chunks of L that carry a web field, in the order of L
RECURSIVE WebOnly(_)
WebOnly(L) ==
  IF L = <<>> THEN <<>>
  ELSE IF L[Len(L)].hasWeb
       THEN Append(WebOnly(SubSeq(L, 1, Len(L) - 1)), L[Len(L)])
       ELSE WebOnly(SubSeq(L, 1, Len(L) - 1))

\* the step is a run of handleSearch
SearchStep == last'.op \in {"return", "submit"}

\* C1: a run of handleSearch with an empty or white-space-only topic returns
\* at once: loading, result, error and the view keep their values and no call
\* to generateContent is issued
C1_BlankSubmitIsNoOp ==
  [][(SearchStep /\ Blank(topic)) =>
       /\ last'.op = "return"
       /\ UNCHANGED <<topic, loading, result, error, view>>
       /\ UNCHANGED <<calls, request, pending, submits>>]_vars

C1_Witness ==
  /\ last.op = "return"
  /\ last.from = "Succeeded"
  /\ topic # <<>>
  /\ Blank(topic)
  /\ calls = 1
  /\ pending = 0

\* C2: a run of handleSearch with a topic that is not blank issues exactly
\* one call, whose prompt contains the topic and asks for 5 sources; no other
\* step issues a call (a rejection does not retry), and the number of calls
\* issued equals the number of valid submits
C2_OneCallPerSubmit ==
  /\ [](calls = submits /\ pending \in 0..calls)
  /\ [][/\ (SearchStep /\ ~Blank(topic)) =>
              /\ last'.op = "submit"
              /\ calls' = calls + 1
              /\ pending' = pending + 1
              /\ Contains(request'.contents, <<"\"">> \o topic \o <<"\"">>)
              /\ Contains(request'.contents, <<"Find ", "5">>)
              /\ request'.tools = <<"googleSearch">>
        /\ ~SearchStep => (calls' = calls /\ request' = request /\ pending' <= pending)]_vars

C2_Witness ==
  /\ last.op = "reject"
  /\ last.mounted
  /\ calls = 2
  /\ submits = 2
  /\ pending = 0
  /\ error = "quota exceeded"

\* C3: in every reachable state exactly one of Idle, Loading, Succeeded and
\* Failed holds; no state has a result together with an error, or a result
\* or an error together with loading
C3_ExactlyOneVariant ==
  /\ Cardinality({v \in {"Idle", "Loading", "Succeeded", "Failed"} :
                    Variant(loading, result, error) = v}) = 1
  /\ ~(result # Null /\ error # "")
  /\ ~(loading /\ (result # Null \/ error # ""))

\* C4: right after a valid submit, whatever the state it was made from,
\* loading is true, result is null and error is empty, the view shows no
\* result and no error, and the call is still outstanding
C4_SubmitClearsPayload ==
  last.op = "submit" =>
    /\ loading
    /\ result = Null
    /\ error = ""
    /\ ~view.showResult
    /\ view.links = <<>>
    /\ view.errorPanel = ""
    /\ view.buttonLabel = "Searching..."
    /\ pending > 0

C4_Witness ==
  /\ last.op = "submit"
  /\ last.from = "Succeeded"
  /\ last.again
  /\ loading
  /\ result = Null

\* C5: when the only outstanding call fulfils with a non-empty text T and the
\* chunk list L (empty when absent), loading is false, error is empty,
\* result.text is T and the citations are one per web chunk of L, in order
C5_SuccessStoresResult ==
  (last.op = "fulfil" /\ last.single /\ ~Falsy(last.response.text)) =>
    LET L == IF last.response.grounded THEN last.response.chunks ELSE <<>>
        cites == Citations(result.chunks)
    IN /\ ~loading
       /\ error = ""
       /\ Variant(loading, result, error) = "Succeeded"
       /\ result.text = last.response.text
       /\ Len(cites) = Len(WebOnly(L))
       /\ \A k \in DOMAIN cites : cites[k].href = WebOnly(L)[k].uri
       /\ (L = <<>> => cites = <<>>)

C5_Witness ==
  /\ last.op = "fulfil"
  /\ last.single
  /\ result # Null
  /\ result.text = "**Paper A**..."
  /\ ~view.crashed
  /\ Len(view.links) = 2
  /\ view.links[1].href # view.links[2].href

\* C6: when the only outstanding call rejects, loading is false, result is
\* null and error is the message of the thrown error when it has a non-empty
\* one, otherwise the fallback message; the message is never empty
C6_FailureStoresMessage ==
  (last.op = "reject" /\ last.single) =>
    /\ ~loading
    /\ result = Null
    /\ error = IF last.err.message \in {Undefined, ""}
               THEN "An error occurred while fetching articles."
               ELSE last.err.message
    /\ error # ""
    /\ error # Undefined
    /\ Variant(loading, result, error) = "Failed"

C6_Witness ==
  /\ last.op = "reject"
  /\ last.single
  /\ last.err.message = "quota exceeded"
  /\ error = "quota exceeded"
  /\ ~loading

\* C7: the chunk list stored in result holds only chunks with a web field, so
\* a response whose chunks all lack web is displayed as one with no chunks
C7_StoredChunksAreWebOnly ==
  result # Null =>
    /\ \A i \in DOMAIN result.chunks : result.chunks[i].hasWeb
    /\ (~view.crashed /\ WebOnly(result.chunks) = <<>>) => view.noLinksMsg

\* C8: when a call fulfils without text (absent or empty), result.text is
\* "No results found." and the state is not Failed; it is Succeeded when the
\* call was the only outstanding one
C8_NoTextFallback ==
  (last.op = "fulfil" /\ last.mounted /\ last.response.text \in {Undefined, ""}) =>
    /\ result # Null
    /\ result.text = "No results found."
    /\ ~loading
    /\ Variant(loading, result, error) # "Failed"
    /\ last.single => Variant(loading, result, error) = "Succeeded"

C8_Witness ==
  /\ last.op = "fulfil"
  /\ last.single
  /\ last.response.text = ""
  /\ result.text = "No results found."
  /\ view.markdown = "No results found."

\* C9: the citation of a web chunk keeps the uri of the chunk and carries
\* its title, or "Untitled Source" when the title is absent or empty
C9_UntitledFallback ==
  result # Null =>
    LET web == WebOnly(result.chunks)
        cites == Citations(result.chunks)
    IN /\ Len(cites) = Len(web)
       /\ \A k \in DOMAIN cites :
            /\ cites[k].href = web[k].uri
            /\ cites[k].title = IF web[k].title \in {Undefined, ""}
                                THEN "Untitled Source" ELSE web[k].title
       /\ ~view.crashed => view.links = cites

C9_Witness ==
  /\ result # Null
  /\ ~view.crashed
  /\ Len(view.links) = 2
  /\ view.links[1].title = "Paper A"
  /\ view.links[2].title = "Untitled Source"
  /\ view.links[2].href = GoodUriB

\* C10: after a rejection loading is false, so the submit button is enabled
\* for every non-empty topic and handleSearch can run; a valid submit made
\* from Failed issues a new call and moves to Loading
C10_RetryAfterFailure ==
  /\ []((last.op = "reject" /\ last.mounted) =>
          /\ ~loading
          /\ error # ""
          /\ topic # <<>> => ~view.submitDisabled
          /\ calls < MaxCalls => ENABLED HandleSearch)
  /\ [](Variant(loading, result, error) = "Failed" =>
          /\ topic # <<>> => ~view.submitDisabled
          /\ calls < MaxCalls => ENABLED HandleSearch)
  /\ [][(SearchStep /\ ~Blank(topic) /\ Variant(loading, result, error) = "Failed") =>
          /\ last'.op = "submit"
          /\ calls' = calls + 1
          /\ pending' = pending + 1
          /\ Variant(loading', result', error') = "Loading"]_vars

C10_Witness ==
  /\ last.op = "submit"
  /\ last.from = "Failed"
  /\ calls = 2
  /\ pending = 1
  /\ loading

\* the step is the resolution of a call
ResolveStep == last'.op \in {"fulfil", "reject"}

\* the last handler resolved the last outstanding call of a race: a call
\* issued together with it had resolved before, since the last submit
RaceOver ==
  /\ last.op \in {"fulfil", "reject"}
  /\ last.mounted
  /\ last.from # "Loading"
  /\ pending = 0

\* C11: when two calls issued one after the other have both resolved, the
\* state is the terminal state of the call that resolved last: Succeeded with
\* its result or Failed with its message, nothing of the earlier call left
C11_LastResolutionWins ==
  RaceOver =>
    /\ last.op = "fulfil" =>
         /\ Variant(loading, result, error) = "Succeeded"
         /\ result.text = Or(last.response.text, "No results found.")
         /\ result.chunks = last.response.chunks
    /\ last.op = "reject" =>
         /\ Variant(loading, result, error) = "Failed"
         /\ error = Or(last.err.message, "An error occurred while fetching articles.")

\* C12: whenever loading is true there is no result and no error, in the
\* state and in the view, whatever the interleaving of submits and resolutions
C12_LoadingShowsNoPayload ==
  loading =>
    /\ result = Null
    /\ error = ""
    /\ ~view.showResult
    /\ view.errorPanel = ""
    /\ view.links = <<>>

C12_Witness ==
  /\ loading
  /\ pending = 2
  /\ last.op = "setTopic"
  /\ last.from = "Loading"
  /\ result = Null
  /\ error = ""

\* C13: no error escapes: rendering never throws, whatever the response or
\* the thrown error, and every resolution of the only outstanding call ends
\* in Succeeded or Failed with the root still mounted
C13_NoErrorEscapes ==
  /\ ~view.crashed
  /\ (last.op \in {"fulfil", "reject"} /\ last.single) =>
       Variant(loading, result, error) \in {"Succeeded", "Failed"}

\* C14: when handleSearch runs only through the enabled submit button, at
\* most one call is outstanding, and loading is true exactly while a call is
\* outstanding: true from the submit that issues it, false from the step in
\* which it resolves
C14_OneCallAtATime ==
  /\ [](pending <= 1 /\ (loading <=> pending = 1))
  /\ [][/\ (SearchStep /\ last'.op = "submit") =>
              (~loading /\ pending = 0 /\ loading' /\ pending' = 1)
        /\ ResolveStep => (loading /\ pending = 1 /\ ~loading' /\ pending' = 0)
        /\ (loading' # loading) => (ResolveStep \/ last'.op = "submit")]_vars

C14_Witness ==
  /\ loading
  /\ pending = 1
  /\ calls = 2
  /\ last.op = "setTopic"
  /\ view.submitDisabled
  /\ topic # <<>>

\* C15: provided every call settles, a state with loading true leads to a
\* state with loading false that is Succeeded or Failed; a fulfilment and a
\* rejection both clear loading, and nothing else does (there is no timeout):
\* loading stays true over every step that is not the settling of a call
C15_LoadingEnds ==
  /\ loading ~> (~loading /\ Variant(loading, result, error) \in {"Succeeded", "Failed"})
  /\ [][/\ (ResolveStep /\ last'.mounted) => ~loading'
        /\ (loading /\ ~ResolveStep) => loading']_vars

C15_Witness ==
  /\ last.op = "fulfil"
  /\ last.from = "Loading"
  /\ last.mounted
  /\ ~loading
  /\ pending = 0
  /\ calls = 1
  /\ Variant(loading, result, error) = "Succeeded"

\* loading false, result null, error empty
IsIdle == ~loading /\ result = Null /\ error = ""

\* C16: once a valid submit has been made the state is never again Idle,
\* whatever submits and resolutions follow; and the only run of handleSearch
\* or resolution that leaves the state Idle is a submit of a blank topic
C16_IdleOnlyInitially ==
  /\ [](submits > 0 => ~IsIdle)
  /\ [][(IsIdle /\ (SearchStep \/ ResolveStep) /\ IsIdle') =>
          (last'.op = "return" /\ Blank(topic) /\ calls' = 0)]_vars

C16_Witness ==
  /\ submits = 2
  /\ pending = 0
  /\ last.op = "reject"
  /\ last.mounted
  /\ last.err.message = ""
  /\ ~loading
  /\ ~IsIdle

====
